---------------------------- MODULE Spec2Model ----------------------------
(***************************************************************************)
(* The QPS load-testing engine of shared_loadtest.py: one pacer thread     *)
(* (run_qps_load_test) and target_qps worker threads (query_worker) that   *)
(* communicate through query_queue and results_queue.                      *)
(*                                                                         *)
(* The unit of time is the pacing interval 1/target_qps: the clock reads   *)
(* an integer number of intervals and warmup_seconds and run_seconds are   *)
(* durations in that unit (2 stands for 2/target_qps seconds).  The pacer  *)
(* compares the clock only with phase_start + k * interval and with        *)
(* phase_start + duration, so for durations that are whole intervals this  *)
(* clock decides every comparison as the real one does.                    *)
(*                                                                         *)
(* Threads are asynchronous: any thread may be delayed for any time        *)
(* between two of its steps.  The waits whose length is fixed by the code  *)
(* (sleep(2), get(timeout=1.0), join(timeout=5.0)) end after some time     *)
(* that is not tracked: a blocked get may raise Empty whenever the queue   *)
(* is empty, a join may give up whenever the worker is still alive.        *)
(***************************************************************************)
EXTENDS Integers, Sequences, FiniteSets, TLC

\* ---- bounds of the model ----
MaxQps == 2
MaxWarmupSeconds == 1
MaxRunSeconds == 1
MaxOutcomes == 4
MaxLatency == 3
MaxSample == 101
MaxLevels == 2
MaxTimedSeconds == 3

VARIABLES
    target_qps, warmup_seconds, run_seconds,   \* arguments of run_qps_load_test
    now,                                        \* time.time()
    pc,                                         \* position of the pacer
    warmup_start, warmup_end, test_start, test_end,
    next_query_time, queries_submitted,
    warm_enqueued,                              \* history: warmup tasks put so far
    poisons_put, join_idx,
    query_queue, unfinished_tasks,              \* Queue(): items and its task counter
    results_queue,
    successful_queries, failed_queries,
    query_times, stats,                         \* the collected latencies, the returned tuple
    wpc, conn, task,                            \* per worker
    handle,                                     \* the kind of handle the workers hold
    warm_executed, meas_executed,               \* history: execute_query calls
    qps_values, level, test_results, spc,       \* run_load_test_suite: its argument, the
                                                \* position i + 1 of its loop, its list,
                                                \* its position
    stale_queue                                 \* the query_queue of the level before

pacerVars == <<pc, warmup_start, warmup_end, test_start, test_end, next_query_time,
               queries_submitted, warm_enqueued, poisons_put, join_idx,
               successful_queries, failed_queries>>
inputVars == <<target_qps, warmup_seconds, run_seconds>>
workerVars == <<wpc, conn, task, handle, warm_executed, meas_executed>>
aggVars == <<query_times, stats>>
suiteVars == <<qps_values, level, test_results, spc, stale_queue>>
vars == <<inputVars, now, pacerVars, query_queue, unfinished_tasks, results_queue,
          workerVars, aggVars, suiteVars>>

Workers == 1..target_qps
NoConn == 0
\* The handle of a worker after the finally block has closed it.
Closed == -1
Disconnected == -2

\* interval = 1.0 / target_qps, the unit of time.
interval == 1

WarmupTask == "warmup"
MeasureTask == "measure"
PoisonTask == "poison"

WarmupPcs == {"warmup_check", "warmup_body"}
TestPcs == {"test_init", "test_check", "test_body"}

\* The state of the per-run state machine the pacer is in.
Phase ==
    CASE pc = "connecting" -> "CONNECTING"
      [] pc \in WarmupPcs -> "WARMUP"
      [] pc \in TestPcs -> "MEASURING"
      [] pc = "draining" -> "DRAINING"
      [] pc \in {"poisoning", "joining"} -> "TERMINATING_WORKERS"
      [] pc = "aggregating" -> "AGGREGATING"
      [] OTHER -> "DONE"

\* The clock is followed while the pacer compares it with a phase end, up to
\* that end: every later reading decides the pacer's comparisons the same way.
Horizon ==
    CASE pc \in WarmupPcs -> warmup_end
      [] pc \in {"test_check", "test_body"} -> test_end
      [] OTHER -> now

\* Nothing has been returned yet.
NoStats == [returned |-> FALSE]

\* The handle of the shared engine's worker: it has close, and its teardown
\* raises nothing.
StandardHandle == [code |-> "shared", has |-> {"close"}, raises |-> "none"]

\* One call of run_qps_load_test, as the only level of a suite.
OneLevel ==
    /\ qps_values = <<target_qps>> /\ level = 1 /\ test_results = <<>> /\ spc = "running"
    /\ stale_queue = <<>>

\* The state at the call of run_qps_load_test, its arguments apart.
Called ==
    /\ now = 0
    /\ pc = "connecting"
    /\ warmup_start = 0 /\ warmup_end = 0 /\ test_start = 0 /\ test_end = 0
    /\ next_query_time = 0 /\ queries_submitted = 0 /\ warm_enqueued = 0
    /\ poisons_put = 0 /\ join_idx = 1
    /\ query_queue = <<>> /\ unfinished_tasks = 0
    /\ results_queue = <<>>
    /\ successful_queries = 0 /\ failed_queries = 0
    /\ query_times = <<>> /\ stats = NoStats
    /\ wpc = [w \in Workers |-> "start"]
    /\ conn = [w \in Workers |-> NoConn]
    /\ task = [w \in Workers |-> "none"]
    /\ handle = StandardHandle
    /\ warm_executed = 0 /\ meas_executed = 0
    /\ OneLevel

Init ==
    /\ target_qps \in 1..MaxQps
    /\ warmup_seconds \in 0..MaxWarmupSeconds
    /\ run_seconds \in 0..MaxRunSeconds
    /\ Called

\* ---- the clock ----
Tick ==
    /\ now < Horizon
    /\ now' = now + 1
    /\ UNCHANGED <<inputVars, suiteVars, aggVars, pacerVars, query_queue, unfinished_tasks, results_queue,
                   workerVars>>

\* ---- Queue ----
\* Queue.put: append the item and count it as unfinished.
Put(item) ==
    /\ query_queue' = Append(query_queue, item)
    /\ unfinished_tasks' = unfinished_tasks + 1

\* ---- the pacer: run_qps_load_test ----
StartWarmup ==
    /\ pc = "connecting"
    /\ warmup_start' = now
    /\ warmup_end' = now + warmup_seconds
    /\ next_query_time' = now
    /\ pc' = "warmup_check"
    /\ UNCHANGED <<inputVars, suiteVars, aggVars, now, test_start, test_end, queries_submitted, warm_enqueued,
                   poisons_put, join_idx, successful_queries, failed_queries,
                   query_queue, unfinished_tasks, results_queue, workerVars>>

WarmupCheck ==
    /\ pc = "warmup_check"
    /\ pc' = IF now < warmup_end THEN "warmup_body" ELSE "test_init"
    /\ UNCHANGED <<inputVars, suiteVars, aggVars, now, warmup_start, warmup_end, test_start, test_end,
                   next_query_time, queries_submitted, warm_enqueued, poisons_put, join_idx,
                   successful_queries, failed_queries,
                   query_queue, unfinished_tasks, results_queue, workerVars>>

\* A closed-loop pacer: it holds a task back while the queue has a backlog.
DueUnlessBacklog(current_time) ==
    current_time >= next_query_time /\ Len(query_queue) < target_qps

\* A pacer that fires up to one interval ahead of its schedule.
DueOneEarly(current_time) == current_time + interval >= next_query_time

\* The pacer's test: fire when the clock has reached next_query_time.
Due(current_time) == current_time >= next_query_time

\* A warmup loop that tags its tasks is_warmup=False.
WarmupBodyWrongFlag ==
    /\ pc = "warmup_body"
    /\ IF Due(now)
         THEN /\ Put(MeasureTask)
              /\ warm_enqueued' = warm_enqueued + 1
              /\ next_query_time' = next_query_time + interval
         ELSE UNCHANGED <<query_queue, unfinished_tasks, warm_enqueued, next_query_time>>
    /\ pc' = "warmup_check"
    /\ UNCHANGED <<inputVars, suiteVars, aggVars, now, warmup_start, warmup_end, test_start, test_end,
                   queries_submitted, poisons_put, join_idx,
                   successful_queries, failed_queries, results_queue, workerVars>>

WarmupBody ==
    /\ pc = "warmup_body"
    /\ IF Due(now)
         THEN /\ Put(WarmupTask)
              /\ warm_enqueued' = warm_enqueued + 1
              /\ next_query_time' = next_query_time + interval
         ELSE UNCHANGED <<query_queue, unfinished_tasks, warm_enqueued, next_query_time>>
    /\ pc' = "warmup_check"
    /\ UNCHANGED <<inputVars, suiteVars, aggVars, now, warmup_start, warmup_end, test_start, test_end,
                   queries_submitted, poisons_put, join_idx,
                   successful_queries, failed_queries, results_queue, workerVars>>

\* A measurement loop whose first task is due one interval after its start.
TestInitFirstAfterInterval ==
    /\ pc = "test_init"
    /\ test_start' = now
    /\ queries_submitted' = 0
    /\ test_end' = now + run_seconds
    /\ next_query_time' = now + interval
    /\ pc' = "test_check"
    /\ UNCHANGED <<inputVars, suiteVars, aggVars, now, warmup_start, warmup_end, warm_enqueued,
                   poisons_put, join_idx, successful_queries, failed_queries,
                   query_queue, unfinished_tasks, results_queue, workerVars>>

TestInit ==
    /\ pc = "test_init"
    /\ test_start' = now
    /\ queries_submitted' = 0
    /\ test_end' = now + run_seconds
    /\ next_query_time' = now
    /\ pc' = "test_check"
    /\ UNCHANGED <<inputVars, suiteVars, aggVars, now, warmup_start, warmup_end, warm_enqueued,
                   poisons_put, join_idx, successful_queries, failed_queries,
                   query_queue, unfinished_tasks, results_queue, workerVars>>

\* A measurement loop that goes straight to the poison tasks.
TestCheckSkipsDrain ==
    /\ pc = "test_check"
    /\ pc' = IF now < test_end THEN "test_body" ELSE "poisoning"
    /\ UNCHANGED <<inputVars, suiteVars, aggVars, now, warmup_start, warmup_end, test_start, test_end,
                   next_query_time, queries_submitted, warm_enqueued, poisons_put, join_idx,
                   successful_queries, failed_queries,
                   query_queue, unfinished_tasks, results_queue, workerVars>>

TestCheck ==
    /\ pc = "test_check"
    /\ pc' = IF now < test_end THEN "test_body" ELSE "draining"
    /\ UNCHANGED <<inputVars, suiteVars, aggVars, now, warmup_start, warmup_end, test_start, test_end,
                   next_query_time, queries_submitted, warm_enqueued, poisons_put, join_idx,
                   successful_queries, failed_queries,
                   query_queue, unfinished_tasks, results_queue, workerVars>>

\* A measurement loop that schedules the next task one interval from now.
TestBodyRecomputes ==
    /\ pc = "test_body"
    /\ IF Due(now)
         THEN /\ Put(MeasureTask)
              /\ queries_submitted' = queries_submitted + 1
              /\ next_query_time' = now + interval
         ELSE UNCHANGED <<query_queue, unfinished_tasks, queries_submitted, next_query_time>>
    /\ pc' = "test_check"
    /\ UNCHANGED <<inputVars, suiteVars, aggVars, now, warmup_start, warmup_end, test_start, test_end,
                   warm_enqueued, poisons_put, join_idx,
                   successful_queries, failed_queries, results_queue, workerVars>>

TestBody ==
    /\ pc = "test_body"
    /\ IF Due(now)
         THEN /\ Put(MeasureTask)
              /\ queries_submitted' = queries_submitted + 1
              /\ next_query_time' = next_query_time + interval
         ELSE UNCHANGED <<query_queue, unfinished_tasks, queries_submitted, next_query_time>>
    /\ pc' = "test_check"
    /\ UNCHANGED <<inputVars, suiteVars, aggVars, now, warmup_start, warmup_end, test_start, test_end,
                   warm_enqueued, poisons_put, join_idx,
                   successful_queries, failed_queries, results_queue, workerVars>>

\* A drain wait that returns while tasks are still unfinished.
DrainJoinNoWait ==
    /\ pc = "draining"
    /\ pc' = "poisoning"
    /\ UNCHANGED <<inputVars, suiteVars, aggVars, now, warmup_start, warmup_end, test_start, test_end,
                   next_query_time, queries_submitted, warm_enqueued, poisons_put, join_idx,
                   successful_queries, failed_queries,
                   query_queue, unfinished_tasks, results_queue, workerVars>>

\* A drain wait that returns as soon as the queue is empty.
DrainJoinUntilEmpty ==
    /\ pc = "draining"
    /\ query_queue = <<>>
    /\ pc' = "poisoning"
    /\ UNCHANGED <<inputVars, suiteVars, aggVars, now, warmup_start, warmup_end, test_start, test_end,
                   next_query_time, queries_submitted, warm_enqueued, poisons_put, join_idx,
                   successful_queries, failed_queries,
                   query_queue, unfinished_tasks, results_queue, workerVars>>

\* query_queue.join(): returns once every item put has been marked done.
DrainJoin ==
    /\ pc = "draining"
    /\ unfinished_tasks = 0
    /\ pc' = "poisoning"
    /\ UNCHANGED <<inputVars, suiteVars, aggVars, now, warmup_start, warmup_end, test_start, test_end,
                   next_query_time, queries_submitted, warm_enqueued, poisons_put, join_idx,
                   successful_queries, failed_queries,
                   query_queue, unfinished_tasks, results_queue, workerVars>>

PutPoison ==
    /\ pc = "poisoning"
    /\ poisons_put < target_qps
    /\ Put(PoisonTask)
    /\ poisons_put' = poisons_put + 1
    /\ pc' = IF poisons_put + 1 = target_qps THEN "joining" ELSE "poisoning"
    /\ UNCHANGED <<inputVars, suiteVars, aggVars, now, warmup_start, warmup_end, test_start, test_end,
                   next_query_time, queries_submitted, warm_enqueued, join_idx,
                   successful_queries, failed_queries, results_queue, workerVars>>

\* worker.join(timeout=5.0): returns when the worker has exited or after 5 s.
JoinWorker(timed_out) ==
    /\ pc = "joining"
    /\ timed_out \/ wpc[join_idx] = "exited"
    /\ join_idx' = join_idx + 1
    /\ pc' = IF join_idx = target_qps THEN "aggregating" ELSE "joining"
    /\ UNCHANGED <<inputVars, suiteVars, aggVars, now, warmup_start, warmup_end, test_start, test_end,
                   next_query_time, queries_submitted, warm_enqueued, poisons_put,
                   successful_queries, failed_queries,
                   query_queue, unfinished_tasks, results_queue, workerVars>>

\* ---- the statistics ----
\* Latencies are whole numbers of a time unit and the statistics are computed
\* exactly, as fractions <<numerator, denominator>> with a positive denominator
\* (the code computes them in floating point).
Rat(n, d) == <<n, d>>
RatEq(a, b) == a[1] * b[2] = b[1] * a[2]
RatLe(a, b) == a[1] * b[2] <= b[1] * a[2]

RECURSIVE sum(_)
sum(seq) == IF seq = <<>> THEN 0 ELSE Head(seq) + sum(Tail(seq))

min(seq) == CHOOSE x \in {seq[i] : i \in 1..Len(seq)} : \A i \in 1..Len(seq) : x <= seq[i]
max(seq) == CHOOSE x \in {seq[i] : i \in 1..Len(seq)} : \A i \in 1..Len(seq) : x >= seq[i]

RECURSIVE Insert(_, _)
Insert(x, seq) ==
    IF seq = <<>> THEN <<x>>
    ELSE IF x <= Head(seq) THEN <<x>> \o seq
    ELSE <<Head(seq)>> \o Insert(x, Tail(seq))

RECURSIVE sorted(_)
sorted(seq) == IF seq = <<>> THEN <<>> ELSE Insert(Head(seq), sorted(Tail(seq)))

\* A median that takes the lower of the two middle elements of an even sample.
medianLowerMiddle(data) ==
    LET n == Len(data)
        i == n \div 2
    IN IF n % 2 = 1 THEN Rat(data[i + 1], 1)
       ELSE Rat(data[i], 1)

\* statistics.median of sorted data: the middle element, or the mean of the two
\* middle elements.  data[i + 1] here is data[i] in the code.
median(data) ==
    LET n == Len(data)
        i == n \div 2
    IN IF n % 2 = 1 THEN Rat(data[i + 1], 1)
       ELSE Rat(data[i] + data[i + 1], 2)

\* A percentile that never interpolates: it returns data[int(index)].
percentileNoInterpolation(data, p) ==
    LET n == Len(data)
        hundredths == p * (n - 1)
        k == hundredths \div 100
    IN IF n = 0 THEN Rat(0, 1)
       ELSE Rat(data[k + 1], 1)

\* A percentile that interpolates upward from the upper neighbour.
percentileFromUpper(data, p) ==
    LET n == Len(data)
        hundredths == p * (n - 1)
        k == hundredths \div 100
        frac == hundredths % 100
    IN IF n = 0 THEN Rat(0, 1)
       ELSE IF frac = 0 THEN Rat(data[k + 1], 1)
       ELSE Rat(100 * data[k + 2] + (data[k + 2] - data[k + 1]) * frac, 100)

\* data[i] of a list of n elements is defined for -n <= i <= n - 1, a negative i
\* counting from the end; any other i raises IndexError.
InRange(n, i) == i \in (0 - n)..(n - 1)

At(data, i) == IF i >= 0 THEN data[i + 1] ELSE data[Len(data) + i + 1]

\* The outcome of percentile when one of its reads raises IndexError: no
\* rational, its denominator is zero.
IndexError == <<0, 0>>

\* A percentile whose index is scaled by n instead of n - 1.
percentileScaledByLength(data, p) ==
    LET n == Len(data)
        hundredths == p * n
        k == hundredths \div 100
        frac == hundredths % 100
    IN IF n = 0 THEN Rat(0, 1)
       ELSE IF frac = 0
              THEN IF InRange(n, k) THEN Rat(At(data, k), 1) ELSE IndexError
       ELSE IF InRange(n, k) /\ InRange(n, k + 1)
              THEN LET lower == At(data, k)
                       upper == At(data, k + 1)
                   IN Rat(100 * lower + (upper - lower) * frac, 100)
       ELSE IndexError

\* percentile(data, p): index = (p / 100) * (n - 1) is hundredths / 100, int(index)
\* is k and index - int(index) is frac / 100.
percentile(data, p) ==
    LET n == Len(data)
        hundredths == p * (n - 1)
        k == hundredths \div 100
        frac == hundredths % 100
    IN IF n = 0 THEN Rat(0, 1)
       ELSE IF frac = 0
              THEN IF InRange(n, k) THEN Rat(At(data, k), 1) ELSE IndexError
       ELSE IF InRange(n, k) /\ InRange(n, k + 1)
              THEN LET lower == At(data, k)
                       upper == At(data, k + 1)
                   IN Rat(100 * lower + (upper - lower) * frac, 100)
       ELSE IndexError

\* An aggregation that loses the failed count when nothing succeeded.
StatisticsDropsFailed(times, successful, failed, seconds) ==
    IF times # <<>>
      THEN LET sorted_times == sorted(times) IN
           [min_time |-> Rat(min(times), 1),
            max_time |-> Rat(max(times), 1),
            avg_time |-> Rat(sum(times), Len(times)),
            median_time |-> median(sorted_times),
            p90 |-> percentile(sorted_times, 90),
            p95 |-> percentile(sorted_times, 95),
            p99 |-> percentile(sorted_times, 99),
            actual_qps |-> Rat(successful, seconds),
            successful_queries |-> successful,
            failed_queries |-> failed]
      ELSE [min_time |-> Rat(0, 1), max_time |-> Rat(0, 1), avg_time |-> Rat(0, 1),
            median_time |-> Rat(0, 1), p90 |-> Rat(0, 1), p95 |-> Rat(0, 1),
            p99 |-> Rat(0, 1), actual_qps |-> Rat(0, 1),
            successful_queries |-> 0, failed_queries |-> 0]

\* An aggregation that divides every collected outcome by run_seconds.
StatisticsQpsFromSubmitted(times, successful, failed, seconds) ==
    IF times # <<>>
      THEN LET sorted_times == sorted(times) IN
           [min_time |-> Rat(min(times), 1),
            max_time |-> Rat(max(times), 1),
            avg_time |-> Rat(sum(times), Len(times)),
            median_time |-> median(sorted_times),
            p90 |-> percentile(sorted_times, 90),
            p95 |-> percentile(sorted_times, 95),
            p99 |-> percentile(sorted_times, 99),
            actual_qps |-> Rat(successful + failed, seconds),
            successful_queries |-> successful,
            failed_queries |-> failed]
      ELSE [min_time |-> Rat(0, 1), max_time |-> Rat(0, 1), avg_time |-> Rat(0, 1),
            median_time |-> Rat(0, 1), p90 |-> Rat(0, 1), p95 |-> Rat(0, 1),
            p99 |-> Rat(0, 1), actual_qps |-> Rat(0, 1),
            successful_queries |-> 0, failed_queries |-> failed]

\* An aggregation that takes the median and the percentiles from the times in
\* their order of arrival.
StatisticsOfArrivalOrder(times, successful, failed, seconds) ==
    IF times # <<>>
      THEN [min_time |-> Rat(min(times), 1),
            max_time |-> Rat(max(times), 1),
            avg_time |-> Rat(sum(times), Len(times)),
            median_time |-> median(times),
            p90 |-> percentile(times, 90),
            p95 |-> percentile(times, 95),
            p99 |-> percentile(times, 99),
            actual_qps |-> Rat(successful, seconds),
            successful_queries |-> successful,
            failed_queries |-> failed]
      ELSE [min_time |-> Rat(0, 1), max_time |-> Rat(0, 1), avg_time |-> Rat(0, 1),
            median_time |-> Rat(0, 1), p90 |-> Rat(0, 1), p95 |-> Rat(0, 1),
            p99 |-> Rat(0, 1), actual_qps |-> Rat(0, 1),
            successful_queries |-> 0, failed_queries |-> failed]

\* The tuple run_qps_load_test returns.
Statistics(times, successful, failed, seconds) ==
    IF times # <<>>
      THEN LET sorted_times == sorted(times) IN
           [min_time |-> Rat(min(times), 1),
            max_time |-> Rat(max(times), 1),
            avg_time |-> Rat(sum(times), Len(times)),
            median_time |-> median(sorted_times),
            p90 |-> percentile(sorted_times, 90),
            p95 |-> percentile(sorted_times, 95),
            p99 |-> percentile(sorted_times, 99),
            actual_qps |-> Rat(successful, seconds),
            successful_queries |-> successful,
            failed_queries |-> failed]
      ELSE [min_time |-> Rat(0, 1), max_time |-> Rat(0, 1), avg_time |-> Rat(0, 1),
            median_time |-> Rat(0, 1), p90 |-> Rat(0, 1), p95 |-> Rat(0, 1),
            p99 |-> Rat(0, 1), actual_qps |-> Rat(0, 1),
            successful_queries |-> 0, failed_queries |-> failed]

\* A collecting loop that keeps the time of every outcome, failed ones included.
CollectTimesOfFailures ==
    /\ pc = "aggregating"
    /\ results_queue # <<>>
    /\ LET result == Head(results_queue) IN
         /\ successful_queries' = successful_queries + (IF result.success THEN 1 ELSE 0)
         /\ failed_queries' = failed_queries + (IF result.success THEN 0 ELSE 1)
         /\ query_times' = Append(query_times, result.time)
    /\ results_queue' = Tail(results_queue)
    /\ UNCHANGED <<inputVars, suiteVars, stats, now, pc, warmup_start, warmup_end, test_start, test_end,
                   next_query_time, queries_submitted, warm_enqueued, poisons_put, join_idx,
                   query_queue, unfinished_tasks, workerVars>>

\* One iteration of "while not results_queue.empty()".
Collect ==
    /\ pc = "aggregating"
    /\ results_queue # <<>>
    /\ LET result == Head(results_queue) IN
         /\ successful_queries' = successful_queries + (IF result.success THEN 1 ELSE 0)
         /\ failed_queries' = failed_queries + (IF result.success THEN 0 ELSE 1)
         /\ query_times' = IF result.success THEN Append(query_times, result.time)
                                              ELSE query_times
    /\ results_queue' = Tail(results_queue)
    /\ UNCHANGED <<inputVars, suiteVars, stats, now, pc, warmup_start, warmup_end, test_start, test_end,
                   next_query_time, queries_submitted, warm_enqueued, poisons_put, join_idx,
                   query_queue, unfinished_tasks, workerVars>>

\* The loop finds results_queue empty; the statistics are returned.
Return ==
    /\ pc = "aggregating"
    /\ results_queue = <<>>
    /\ stats' = Statistics(query_times, successful_queries, failed_queries, run_seconds)
    /\ pc' = "done"
    /\ UNCHANGED <<inputVars, suiteVars, query_times, now, warmup_start, warmup_end, test_start, test_end,
                   next_query_time, queries_submitted, warm_enqueued, poisons_put, join_idx,
                   successful_queries, failed_queries,
                   query_queue, unfinished_tasks, results_queue, workerVars>>

\* ---- a worker: query_worker ----
\* create_connection_func returns a handle, returns None (the ClickHouse factory's
\* failure value) or raises.
ConnResults == {"handle", "none", "raise"}

Connect(w, r) ==
    /\ wpc[w] = "start"
    /\ conn' = [conn EXCEPT ![w] = IF r = "handle" THEN w ELSE NoConn]
    /\ wpc' = [wpc EXCEPT ![w] = IF r = "raise" THEN "cleanup" ELSE "get"]
    /\ UNCHANGED <<inputVars, suiteVars, handle, aggVars, now, pacerVars, query_queue, unfinished_tasks, results_queue,
                   task, warm_executed, meas_executed>>

\* A worker that goes on with its loop after a poison task.
DequeueIgnoresPoison(w) ==
    /\ wpc[w] = "get"
    /\ query_queue # <<>>
    /\ query_queue' = Tail(query_queue)
    /\ IF Head(query_queue) = PoisonTask
         THEN UNCHANGED <<wpc, task>>
         ELSE /\ wpc' = [wpc EXCEPT ![w] = "exec"]
              /\ task' = [task EXCEPT ![w] = Head(query_queue)]
    /\ UNCHANGED <<inputVars, suiteVars, handle, aggVars, now, pacerVars, unfinished_tasks, results_queue,
                   conn, warm_executed, meas_executed>>

\* A worker on a last-in first-out queue.
DequeueLast(w) ==
    /\ wpc[w] = "get"
    /\ query_queue # <<>>
    /\ query_queue' = SubSeq(query_queue, 1, Len(query_queue) - 1)
    /\ IF query_queue[Len(query_queue)] = PoisonTask
         THEN /\ wpc' = [wpc EXCEPT ![w] = "cleanup"]
              /\ UNCHANGED task
         ELSE /\ wpc' = [wpc EXCEPT ![w] = "exec"]
              /\ task' = [task EXCEPT ![w] = query_queue[Len(query_queue)]]
    /\ UNCHANGED <<inputVars, suiteVars, handle, aggVars, now, pacerVars, unfinished_tasks, results_queue,
                   conn, warm_executed, meas_executed>>

\* A worker that marks a task done as soon as it has dequeued it.
DequeueMarksDone(w) ==
    /\ wpc[w] = "get"
    /\ query_queue # <<>>
    /\ query_queue' = Tail(query_queue)
    /\ unfinished_tasks' = IF Head(query_queue) = PoisonTask THEN unfinished_tasks
                                                             ELSE unfinished_tasks - 1
    /\ IF Head(query_queue) = PoisonTask
         THEN /\ wpc' = [wpc EXCEPT ![w] = "cleanup"]
              /\ UNCHANGED task
         ELSE /\ wpc' = [wpc EXCEPT ![w] = "exec"]
              /\ task' = [task EXCEPT ![w] = Head(query_queue)]
    /\ UNCHANGED <<inputVars, suiteVars, handle, aggVars, now, pacerVars, results_queue,
                   conn, warm_executed, meas_executed>>

\* query_queue.get(timeout=1.0) returns an item.
Dequeue(w) ==
    /\ wpc[w] = "get"
    /\ query_queue # <<>>
    /\ query_queue' = Tail(query_queue)
    /\ IF Head(query_queue) = PoisonTask
         THEN /\ wpc' = [wpc EXCEPT ![w] = "cleanup"]
              /\ UNCHANGED task
         ELSE /\ wpc' = [wpc EXCEPT ![w] = "exec"]
              /\ task' = [task EXCEPT ![w] = Head(query_queue)]
    /\ UNCHANGED <<inputVars, suiteVars, handle, aggVars, now, pacerVars, unfinished_tasks, results_queue,
                   conn, warm_executed, meas_executed>>

\* query_queue.get(timeout=1.0) raises Empty: the queue is empty and the wait is over.
GetTimeout(w) ==
    /\ wpc[w] = "get"
    /\ query_queue = <<>>
    /\ wpc' = [wpc EXCEPT ![w] = "check_empty"]
    /\ UNCHANGED <<inputVars, suiteVars, handle, aggVars, now, pacerVars, query_queue, unfinished_tasks, results_queue,
                   conn, task, warm_executed, meas_executed>>

\* A handler that breaks after every queue error.
AfterTimeoutAlwaysBreaks(empty) == "cleanup"

\* A handler whose break leaves the thread without running the finally block.
AfterTimeoutSkipsCleanup(empty) == IF empty THEN "get" ELSE "exited"

\* The handler of the queue error: continue when the queue is empty, else break.
AfterTimeout(empty) == IF empty THEN "get" ELSE "cleanup"

CheckEmpty(w) ==
    /\ wpc[w] = "check_empty"
    /\ wpc' = [wpc EXCEPT ![w] = AfterTimeout(query_queue = <<>>)]
    /\ UNCHANGED <<inputVars, suiteVars, handle, aggVars, now, pacerVars, query_queue, unfinished_tasks, results_queue,
                   conn, task, warm_executed, meas_executed>>

\* A worker that records warmup outcomes too.
OutcomesWarmupRecorded(is_warmup, raised, query_time) ==
    <<[success |-> ~raised, is_warmup |-> is_warmup,
       time |-> IF raised THEN 0 ELSE query_time]>>

\* A worker whose exception handler lacks the "if not is_warmup" test.
OutcomesWarmupFailureRecorded(is_warmup, raised, query_time) ==
    IF is_warmup /\ ~raised
      THEN <<>>
      ELSE <<[success |-> ~raised, is_warmup |-> is_warmup,
              time |-> IF raised THEN 0 ELSE query_time]>>

\* What the worker puts on results_queue after one execute_query_func call.
Outcomes(is_warmup, raised, query_time) ==
    IF is_warmup
      THEN <<>>
      ELSE <<[success |-> ~raised, is_warmup |-> is_warmup,
              time |-> IF raised THEN 0 ELSE query_time]>>

\* end_time - start_time of a query.  Threads are asynchronous, so the concurrent
\* model does not follow how long a query takes: every query reports one unit.
Latencies == {1}

\* A worker that lets the exception of a query end its loop.
AfterQueryUncaught(raised) == IF raised THEN "cleanup" ELSE "task_done"

\* A worker that executes the query of a task again after it has raised.
AfterQueryRetries(raised) == IF raised THEN "exec" ELSE "task_done"

\* A worker that opens a new connection after a query has raised.
AfterQueryReconnects(raised) == IF raised THEN "start" ELSE "task_done"

\* Where the worker goes after the call.
AfterQuery(raised) == "task_done"

ExecQuery(w, raised) ==
    /\ wpc[w] = "exec"
    /\ conn[w] = NoConn => raised
    /\ \E query_time \in Latencies :
         results_queue' = results_queue \o Outcomes(task[w] = WarmupTask, raised, query_time)
    /\ wpc' = [wpc EXCEPT ![w] = AfterQuery(raised)]
    /\ warm_executed' = warm_executed + (IF task[w] = WarmupTask THEN 1 ELSE 0)
    /\ meas_executed' = meas_executed + (IF task[w] = WarmupTask THEN 0 ELSE 1)
    /\ UNCHANGED <<inputVars, suiteVars, handle, aggVars, now, pacerVars, query_queue, unfinished_tasks,
                   conn, task>>

\* query_queue.task_done(), then the next get.
TaskDone(w) ==
    /\ wpc[w] = "task_done"
    /\ unfinished_tasks' = unfinished_tasks - 1
    /\ task' = [task EXCEPT ![w] = "none"]
    /\ wpc' = [wpc EXCEPT ![w] = "get"]
    /\ UNCHANGED <<inputVars, suiteVars, handle, aggVars, now, pacerVars, query_queue, results_queue,
                   conn, warm_executed, meas_executed>>

\* What a finally block does with handle h.  The shared engine guards
\* "if conn:" and makes, under a bare except, the one call hasattr selects; the
\* Snowflake worker calls cursor.close() and then conn.close() with no handler
\* around them, so that a raise leaves the block and skips what follows.
Finally(h, connected) ==
    IF h.code = "shared"
      THEN [call |-> IF ~connected THEN "none"
                     ELSE IF "close" \in h.has THEN "close"
                     ELSE IF "disconnect" \in h.has THEN "disconnect"
                     ELSE "none",
            escaped |-> FALSE]
      ELSE IF connected /\ "cursor" \in h.has /\ h.raises = "cursor.close"
             THEN [call |-> "none", escaped |-> TRUE]
      ELSE [call |-> IF connected THEN "close" ELSE "none",
            escaped |-> connected /\ h.raises = "close"]

\* The finally block: "if conn:" closes (or disconnects) the handle, once; the
\* thread ends, with an exception when one left the block.
Cleanup(w) ==
    /\ wpc[w] = "cleanup"
    /\ LET done == Finally(handle, conn[w] # NoConn) IN
         /\ wpc' = [wpc EXCEPT ![w] = IF done.escaped THEN "died" ELSE "exited"]
         /\ conn' = [conn EXCEPT ![w] = IF done.call = "close" THEN Closed
                                        ELSE IF done.call = "disconnect" THEN Disconnected
                                        ELSE conn[w]]
    /\ UNCHANGED handle
    /\ UNCHANGED <<inputVars, suiteVars, aggVars, now, pacerVars, query_queue, unfinished_tasks, results_queue,
                   task, warm_executed, meas_executed>>

PacerNext ==
    \/ StartWarmup \/ WarmupCheck \/ WarmupBody
    \/ TestInit \/ TestCheck \/ TestBody
    \/ DrainJoin \/ PutPoison
    \/ \E timed_out \in BOOLEAN : JoinWorker(timed_out)
    \/ Collect \/ Return

WorkerNext(w) ==
    \/ \E r \in ConnResults : Connect(w, r)
    \/ Dequeue(w) \/ GetTimeout(w) \/ CheckEmpty(w)
    \/ \E raised \in BOOLEAN : ExecQuery(w, raised)
    \/ TaskDone(w) \/ Cleanup(w)

Next == Tick \/ PacerNext \/ \E w \in Workers : WorkerNext(w)

Spec == Init /\ [][Next]_vars

\* The fair specification: the clock advances, and every thread that can take a
\* step eventually takes one (every create_connection and execute_query call
\* returns or raises in finite time).
Fairness ==
    /\ WF_vars(Tick)
    /\ WF_vars(PacerNext)
    /\ \A w \in 1..MaxQps : WF_vars(w \in Workers /\ WorkerNext(w))

FairSpec == Spec /\ Fairness

\* ---- a run on schedule ----
\* The run of a reliable target: every worker gets its connection, every query
\* succeeds, and the pacer is never more than one interval behind its schedule
\* (the clock does not pass next_query_time + interval while the pacer paces).
TimedInit ==
    /\ target_qps \in 1..MaxQps
    /\ warmup_seconds \in 0..MaxWarmupSeconds
    /\ run_seconds \in 0..MaxTimedSeconds
    /\ Called

\* The run with phases of up to MaxTimedSeconds intervals, in any schedule.
LongSpec == TimedInit /\ [][Next]_vars

TimedTick == Tick /\ now + 1 <= next_query_time + interval

TimedWorkerNext(w) ==
    \/ Connect(w, "handle")
    \/ Dequeue(w) \/ GetTimeout(w) \/ CheckEmpty(w)
    \/ ExecQuery(w, FALSE)
    \/ TaskDone(w) \/ Cleanup(w)

TimedNext == TimedTick \/ PacerNext \/ \E w \in Workers : TimedWorkerNext(w)

TimedSpec == TimedInit /\ [][TimedNext]_vars

\* ---- the aggregation alone ----
\* What the workers may have left on results_queue when the pacer reaches the
\* collecting loop: successes with their latency and failures with time 0, in
\* any order.
OutcomeValues ==
    {Outcomes(FALSE, FALSE, t)[1] : t \in 1..MaxLatency} \cup {Outcomes(FALSE, TRUE, 0)[1]}

OutcomeSeqs(longest) == UNION {[1..n -> OutcomeValues] : n \in 0..longest}

\* The state of a run whose workers have been joined, with the values that do
\* not matter to the aggregation fixed.
Joined(outcomes, seconds) ==
    /\ target_qps = 1 /\ warmup_seconds = 0 /\ run_seconds = seconds
    /\ now = seconds
    /\ warmup_start = 0 /\ warmup_end = 0 /\ test_start = 0 /\ test_end = seconds
    /\ next_query_time = outcomes /\ queries_submitted = outcomes /\ warm_enqueued = 0
    /\ poisons_put = 1 /\ join_idx = 2
    /\ query_queue = <<>> /\ unfinished_tasks = 0
    /\ wpc = [w \in 1..1 |-> "exited"]
    /\ conn = [w \in 1..1 |-> Closed]
    /\ task = [w \in 1..1 |-> "none"]
    /\ handle = StandardHandle
    /\ warm_executed = 0 /\ meas_executed = outcomes
    /\ OneLevel

\* A run of run_seconds intervals enqueues at most run_seconds + 1 tasks.
StatsInit ==
    /\ results_queue \in OutcomeSeqs(MaxOutcomes)
    /\ run_seconds \in {r \in 1..MaxOutcomes : Len(results_queue) <= r + 1}
    /\ Joined(Len(results_queue), run_seconds)
    /\ pc = "aggregating"
    /\ successful_queries = 0 /\ failed_queries = 0
    /\ query_times = <<>> /\ stats = NoStats

StatsNext == Collect \/ Return

StatsSpec == StatsInit /\ [][StatsNext]_vars

\* ---- percentile alone ----
Percentiles == {90, 95, 99}

\* A sorted sample of n latencies: j times a, then b.  percentile reads two
\* neighbouring elements, which these samples make equal or different at
\* every position.
TwoLevel(n, j, a, b) == [i \in 1..n |-> IF i <= j THEN a ELSE b]

SortedSamples(largest) ==
    UNION {{TwoLevel(n, j, ab[1], ab[2]) : j \in 0..n} :
           n \in 1..largest,
           ab \in {x \in (1..MaxLatency) \X (1..MaxLatency) : x[1] < x[2]}}

PercentileInit ==
    /\ query_times \in SortedSamples(MaxSample)
    /\ results_queue = <<>>
    /\ Joined(Len(query_times), Len(query_times))
    /\ pc = "percentile"
    /\ successful_queries = Len(query_times) /\ failed_queries = 0
    /\ stats = NoStats

\* One of the calls percentile(sorted_times, 90 | 95 | 99).
ApplyPercentile(p) ==
    /\ pc = "percentile"
    /\ stats' = [p |-> p, value |-> percentile(query_times, p)]
    /\ pc' = "percentile_done"
    /\ UNCHANGED <<inputVars, suiteVars, query_times, now, warmup_start, warmup_end, test_start, test_end,
                   next_query_time, queries_submitted, warm_enqueued, poisons_put, join_idx,
                   successful_queries, failed_queries,
                   query_queue, unfinished_tasks, results_queue, workerVars>>

\* The call statistics.median(sorted_times).
ApplyMedian ==
    /\ pc = "percentile"
    /\ stats' = [p |-> 50, value |-> median(query_times)]
    /\ pc' = "median_done"
    /\ UNCHANGED <<inputVars, suiteVars, query_times, now, warmup_start, warmup_end, test_start, test_end,
                   next_query_time, queries_submitted, warm_enqueued, poisons_put, join_idx,
                   successful_queries, failed_queries,
                   query_queue, unfinished_tasks, results_queue, workerVars>>

PercentileNext ==
    \/ \E p \in Percentiles : ApplyPercentile(p)
    \/ ApplyMedian

PercentileSpec == PercentileInit /\ [][PercentileNext]_vars

\* ---- the finally block alone ----
\* The handles a worker may hold when it reaches its finally block.  The shared
\* engine's handle is whatever create_connection_func returned: it has close,
\* disconnect, both or neither, and the call made on it may raise.  The Snowflake
\* worker holds a connector connection, which has close, with a cursor unless
\* conn.cursor() raised; either close may raise.
Handles ==
    {[code |-> "shared", has |-> attrs, raises |-> r] :
        attrs \in SUBSET {"close", "disconnect"}, r \in {"none", "close", "disconnect"}}
    \cup {[code |-> "snowflake", has |-> {"close"} \cup cursor, raises |-> r] :
        cursor \in SUBSET {"cursor"}, r \in {"none", "cursor.close", "close"}}

\* A run without a task whose pacer has put its poison tasks: every worker has
\* left its loop, on its poison task when it was connected and before the loop
\* when it was not.
TeardownInit ==
    /\ target_qps \in 1..MaxQps
    /\ warmup_seconds = 0 /\ run_seconds = 0
    /\ now = 0
    /\ pc = "joining"
    /\ warmup_start = 0 /\ warmup_end = 0 /\ test_start = 0 /\ test_end = 0
    /\ next_query_time = 0 /\ queries_submitted = 0 /\ warm_enqueued = 0
    /\ poisons_put = target_qps /\ join_idx = 1
    /\ conn \in [Workers -> {NoConn} \cup Workers]
    /\ \A w \in Workers : conn[w] \in {NoConn, w}
    /\ handle \in Handles
    /\ query_queue = [i \in 1..Cardinality({w \in Workers : conn[w] = NoConn}) |-> PoisonTask]
    /\ unfinished_tasks = target_qps
    /\ results_queue = <<>>
    /\ successful_queries = 0 /\ failed_queries = 0
    /\ query_times = <<>> /\ stats = NoStats
    /\ wpc = [w \in Workers |-> "cleanup"]
    /\ task = [w \in Workers |-> "none"]
    /\ warm_executed = 0 /\ meas_executed = 0
    /\ OneLevel

TeardownNext == \E w \in Workers : Cleanup(w)

TeardownSpec == TeardownInit /\ [][TeardownNext]_vars

\* ---- the suite: run_load_test_suite ----
\* The clock and the queues of a level start afresh with its call, and the
\* threads of the level before, which hold no task once its drain has returned,
\* are followed no further.
SuiteInit ==
    /\ qps_values \in UNION {[1..n -> 1..MaxQps] : n \in 0..MaxLevels}
    /\ warmup_seconds \in 0..MaxWarmupSeconds
    /\ run_seconds \in 0..MaxRunSeconds
    /\ spc = "precheck" /\ level = 1 /\ test_results = <<>>
    /\ target_qps = 1
    /\ now = 0
    /\ pc = "not_called"
    /\ warmup_start = 0 /\ warmup_end = 0 /\ test_start = 0 /\ test_end = 0
    /\ next_query_time = 0 /\ queries_submitted = 0 /\ warm_enqueued = 0
    /\ poisons_put = 0 /\ join_idx = 1
    /\ query_queue = <<>> /\ unfinished_tasks = 0
    /\ results_queue = <<>>
    /\ successful_queries = 0 /\ failed_queries = 0
    /\ query_times = <<>> /\ stats = NoStats
    /\ wpc = [w \in 1..1 |-> "exited"]
    /\ conn = [w \in 1..1 |-> NoConn]
    /\ task = [w \in 1..1 |-> "none"]
    /\ handle = StandardHandle
    /\ stale_queue = <<>>
    /\ warm_executed = 0 /\ meas_executed = 0

\* if not test_connection_func(): return None
TestConnection(ok) ==
    /\ spc = "precheck"
    /\ spc' = IF ok THEN "loop" ELSE "returned_none"
    /\ UNCHANGED <<inputVars, now, pacerVars, query_queue, unfinished_tasks, results_queue,
                   workerVars, aggVars, qps_values, level, test_results, stale_queue>>

\* A suite that runs its levels whatever the pre-check returned.
CallLevelWithoutPrecheck ==
    /\ spc \in {"loop", "returned_none"}
    /\ level <= Len(qps_values)
    /\ target_qps' = qps_values[level]
    /\ now' = 0
    /\ pc' = "connecting"
    /\ warmup_start' = 0 /\ warmup_end' = 0 /\ test_start' = 0 /\ test_end' = 0
    /\ next_query_time' = 0 /\ queries_submitted' = 0 /\ warm_enqueued' = 0
    /\ poisons_put' = 0 /\ join_idx' = 1
    /\ query_queue' = <<>> /\ unfinished_tasks' = 0
    /\ results_queue' = <<>>
    /\ successful_queries' = 0 /\ failed_queries' = 0
    /\ query_times' = <<>> /\ stats' = NoStats
    /\ wpc' = [w \in 1..qps_values[level] |-> "start"]
    /\ conn' = [w \in 1..qps_values[level] |-> NoConn]
    /\ task' = [w \in 1..qps_values[level] |-> "none"]
    /\ handle' = StandardHandle
    /\ stale_queue' = query_queue
    /\ warm_executed' = 0 /\ meas_executed' = 0
    /\ spc' = "running"
    /\ UNCHANGED <<warmup_seconds, run_seconds, qps_values, level, test_results>>

\* A suite whose levels share one query_queue and one results_queue.
CallLevelSharedQueues ==
    /\ spc = "loop"
    /\ level <= Len(qps_values)
    /\ target_qps' = qps_values[level]
    /\ now' = 0
    /\ pc' = "connecting"
    /\ warmup_start' = 0 /\ warmup_end' = 0 /\ test_start' = 0 /\ test_end' = 0
    /\ next_query_time' = 0 /\ queries_submitted' = 0 /\ warm_enqueued' = 0
    /\ poisons_put' = 0 /\ join_idx' = 1
    /\ query_queue' = query_queue /\ unfinished_tasks' = unfinished_tasks
    /\ results_queue' = results_queue
    /\ successful_queries' = 0 /\ failed_queries' = 0
    /\ query_times' = <<>> /\ stats' = NoStats
    /\ wpc' = [w \in 1..qps_values[level] |-> "start"]
    /\ conn' = [w \in 1..qps_values[level] |-> NoConn]
    /\ task' = [w \in 1..qps_values[level] |-> "none"]
    /\ handle' = StandardHandle
    /\ stale_queue' = <<>>
    /\ warm_executed' = 0 /\ meas_executed' = 0
    /\ spc' = "running"
    /\ UNCHANGED <<warmup_seconds, run_seconds, qps_values, level, test_results>>

\* The next iteration of the for loop calls run_qps_load_test, which creates its
\* queues and starts its workers.
CallLevel ==
    /\ spc = "loop"
    /\ level <= Len(qps_values)
    /\ target_qps' = qps_values[level]
    /\ now' = 0
    /\ pc' = "connecting"
    /\ warmup_start' = 0 /\ warmup_end' = 0 /\ test_start' = 0 /\ test_end' = 0
    /\ next_query_time' = 0 /\ queries_submitted' = 0 /\ warm_enqueued' = 0
    /\ poisons_put' = 0 /\ join_idx' = 1
    /\ query_queue' = <<>> /\ unfinished_tasks' = 0
    /\ results_queue' = <<>>
    /\ successful_queries' = 0 /\ failed_queries' = 0
    /\ query_times' = <<>> /\ stats' = NoStats
    /\ wpc' = [w \in 1..qps_values[level] |-> "start"]
    /\ conn' = [w \in 1..qps_values[level] |-> NoConn]
    /\ task' = [w \in 1..qps_values[level] |-> "none"]
    /\ handle' = StandardHandle
    /\ stale_queue' = query_queue
    /\ warm_executed' = 0 /\ meas_executed' = 0
    /\ spc' = "running"
    /\ UNCHANGED <<warmup_seconds, run_seconds, qps_values, level, test_results>>

\* The dictionary appended for a level: the fields of the tuple under their keys.
Entry(qps, results) ==
    IF results # NoStats
      THEN [target_qps |-> qps, actual_qps |-> results.actual_qps,
            min |-> results.min_time, avg |-> results.avg_time,
            median |-> results.median_time, p90 |-> results.p90, p95 |-> results.p95,
            p99 |-> results.p99, max |-> results.max_time,
            successful |-> results.successful_queries, failed |-> results.failed_queries]
      ELSE [target_qps |-> qps, actual_qps |-> Rat(0, 1),
            min |-> Rat(0, 1), avg |-> Rat(0, 1),
            median |-> Rat(0, 1), p90 |-> Rat(0, 1), p95 |-> Rat(0, 1),
            p99 |-> Rat(0, 1), max |-> Rat(0, 1), successful |-> 0, failed |-> 0]

\* The success rate printed after the append divides by successful + failed:
\* the division raises ZeroDivisionError when both are 0.
AfterAppend(results) ==
    IF results # NoStats /\ results.successful_queries + results.failed_queries = 0
      THEN "raised" ELSE "loop"

\* A suite that keeps no entry for a level without a successful query.
RecordLevelDropsEmpty ==
    /\ spc = "running"
    /\ pc = "done"
    /\ test_results' = IF stats.successful_queries > 0
                         THEN Append(test_results, Entry(target_qps, stats))
                         ELSE test_results
    /\ spc' = AfterAppend(stats)
    /\ level' = IF AfterAppend(stats) = "loop" THEN level + 1 ELSE level
    /\ UNCHANGED <<inputVars, now, pacerVars, query_queue, unfinished_tasks, results_queue,
                   workerVars, aggVars, qps_values, stale_queue>>

\* run_qps_load_test has returned: the body of the loop after the call.
RecordLevel ==
    /\ spc = "running"
    /\ pc = "done"
    /\ test_results' = Append(test_results, Entry(target_qps, stats))
    /\ spc' = AfterAppend(stats)
    /\ level' = IF AfterAppend(stats) = "loop" THEN level + 1 ELSE level
    /\ UNCHANGED <<inputVars, now, pacerVars, query_queue, unfinished_tasks, results_queue,
                   workerVars, aggVars, qps_values, stale_queue>>

\* return test_results
SuiteReturn ==
    /\ spc = "loop"
    /\ level > Len(qps_values)
    /\ spc' = "returned"
    /\ UNCHANGED <<inputVars, now, pacerVars, query_queue, unfinished_tasks, results_queue,
                   workerVars, aggVars, qps_values, level, test_results, stale_queue>>

SuiteNext ==
    \/ \E ok \in BOOLEAN : TestConnection(ok)
    \/ CallLevel
    \/ Next
    \/ RecordLevel
    \/ SuiteReturn

SuiteSpec == SuiteInit /\ [][SuiteNext]_vars

TypeOK ==
    /\ pc \in {"connecting", "warmup_check", "warmup_body", "test_init", "test_check",
               "test_body", "draining", "poisoning", "joining", "aggregating", "done"}
    /\ unfinished_tasks \in Nat
    /\ \A w \in Workers : wpc[w] \in {"start", "get", "check_empty", "exec", "task_done",
                                      "cleanup", "exited", "died"}

\* ---- helpers of the properties ----
RECURSIVE CountOf(_, _)
CountOf(q, item) ==
    IF q = <<>> THEN 0
    ELSE (IF Head(q) = item THEN 1 ELSE 0) + CountOf(Tail(q), item)

Holding(kind, at) == Cardinality({w \in Workers : wpc[w] = at /\ task[w] = kind})

\* Outcomes put on results_queue so far: those still queued and those collected.
OutcomesPut == Len(results_queue) + successful_queries + failed_queries

PastDrain == pc \in {"poisoning", "joining", "aggregating", "done"}

\* ---- properties ----

\* C1: in every reachable state the outcomes (successful plus failed) the workers
\* have put on results_queue are at most the measurement tasks enqueued so far.
C1_OutcomesAtMostSubmitted == OutcomesPut <= queries_submitted

\* C1 witness: two measurement tasks were enqueued and both produced an outcome,
\* one successful and one failed.
C1_Witness ==
    /\ queries_submitted = 2
    /\ Len(results_queue) = 2
    /\ results_queue[1].success /\ ~results_queue[2].success

\* C2: once query_queue.join() has returned, every enqueued measurement task has
\* produced exactly one outcome, and the returned counts add up to the number of
\* measurement tasks enqueued.
C2_ReturnedCountsEqualSubmitted ==
    /\ PastDrain => OutcomesPut = queries_submitted
    /\ pc = "done" => successful_queries + failed_queries = queries_submitted

\* C2 witness: the run has returned with a successful and a failed outcome counted.
C2_Witness ==
    /\ pc = "done"
    /\ successful_queries >= 1 /\ failed_queries >= 1
    /\ queries_submitted = successful_queries + failed_queries

\* C3: a warmup task never puts anything on results_queue, whether its query
\* succeeds or raises; its query is executed once and the task is marked done.
C3_WarmupStep(w) ==
    /\ (wpc[w] = "exec" /\ task[w] = WarmupTask /\ wpc'[w] # "exec") =>
          /\ results_queue' = results_queue
          /\ wpc'[w] = "task_done"
          /\ warm_executed' = warm_executed + 1
    /\ (wpc[w] = "task_done" /\ task[w] = WarmupTask /\ wpc'[w] # "task_done") =>
          /\ unfinished_tasks' = unfinished_tasks - 1
          /\ warm_executed' = warm_executed

C3_WarmupState ==
    /\ \A i \in 1..Len(results_queue) : ~results_queue[i].is_warmup
    /\ warm_executed = warm_enqueued - CountOf(query_queue, WarmupTask)
                                     - Holding(WarmupTask, "exec")

C3_WarmupNeverRecorded ==
    /\ []C3_WarmupState
    /\ [][\A w \in Workers : C3_WarmupStep(w)]_vars

\* C3 witness: warmup queries were executed and marked done, one of them by a
\* worker without a usable connection (its query raised), and nothing was recorded.
C3_Witness ==
    /\ warm_executed = 2
    /\ unfinished_tasks = 0
    /\ pc \in WarmupPcs
    /\ \E w \in Workers : conn[w] = NoConn /\ wpc[w] = "get"
    /\ \A w \in Workers : wpc[w] \in {"get", "start"}
    /\ \E w \in Workers : wpc[w] = "start"
    /\ OutcomesPut = 0

\* C4: open loop.  While a phase lasts the pacer is never blocked, a pacer step
\* enqueues a task exactly when the clock has reached next_query_time, whatever
\* the queue holds and whatever the workers are doing, and no step of a worker
\* changes what the pacer decides on.  Two runs that read the same clock values
\* therefore enqueue the same tasks at the same times.
C4_NeverBlocked == pc \in WarmupPcs \cup TestPcs => ENABLED PacerNext

C4_PacerStep ==
    (pc \in {"warmup_body", "test_body"} /\ pc' # pc) =>
        LET fire == IF now >= next_query_time THEN 1 ELSE 0 IN
          /\ next_query_time' = next_query_time + fire * interval
          /\ warm_enqueued' = warm_enqueued + (IF pc = "warmup_body" THEN fire ELSE 0)
          /\ queries_submitted' = queries_submitted + (IF pc = "test_body" THEN fire ELSE 0)
          /\ Len(query_queue') = Len(query_queue) + fire

C4_OtherStep ==
    pc' = pc =>
        UNCHANGED <<next_query_time, warm_enqueued, queries_submitted, warmup_end, test_end>>

C4_OpenLoop ==
    /\ []C4_NeverBlocked
    /\ [][C4_PacerStep /\ C4_OtherStep]_vars

\* C4 witness: no task has been served, and the pacer has enqueued all the tasks
\* of both phases on a growing queue.
C4_Witness ==
    /\ warm_enqueued = 2 /\ queries_submitted = 2
    /\ Len(query_queue) = 4

\* C5: when the query of a measurement task raises, the worker puts exactly one
\* failed outcome, goes on to task_done with the same connection, and from there
\* back to the next get.
C5_RaiseStep(w) ==
    /\ (ExecQuery(w, TRUE) /\ task[w] = MeasureTask) =>
          /\ results_queue' = Append(results_queue, [success |-> FALSE, is_warmup |-> FALSE, time |-> 0])
          /\ wpc'[w] = "task_done"
          /\ conn'[w] = conn[w]
    /\ (wpc[w] = "task_done" /\ wpc'[w] # "task_done") =>
          /\ wpc'[w] = "get"
          /\ unfinished_tasks' = unfinished_tasks - 1
          /\ conn'[w] = conn[w]
          /\ results_queue' = results_queue

C5_QueryFailureRecorded == [][\A w \in Workers : C5_RaiseStep(w)]_vars

\* C5 witness: the only worker holds a connection, has recorded a failed outcome
\* and is executing the next measurement task.
C5_Witness ==
    /\ target_qps = 1
    /\ conn[1] # NoConn
    /\ results_queue = <<[success |-> FALSE, is_warmup |-> FALSE, time |-> 0]>>
    /\ wpc[1] = "exec" /\ task[1] = MeasureTask

\* C6: a worker whose connection could not be established (create_connection
\* raised or returned None) never holds a task taken from the task queue.
C6_NoConnectionNoTask ==
    \A w \in Workers : conn[w] = NoConn => wpc[w] \notin {"exec", "task_done"}

\* C7: whatever number of workers fail to connect, the run eventually reaches DONE.
C7_RunCompletes == <>(pc = "done")

\* C8 as claimed: once the poison tasks are enqueued and the workers have exited,
\* every worker has dequeued exactly one of them, so none is left in the queue.
C8_EveryWorkerOnePoison ==
    (poisons_put = target_qps /\ \A w \in Workers : wpc[w] = "exited")
        => CountOf(query_queue, PoisonTask) = 0

\* C8 amended: after the pacer has enqueued target_qps poison tasks every worker
\* eventually exits; no worker dequeues two poison tasks and a worker that
\* dequeues one leaves its loop.  A worker that has left its loop before dequeues
\* none.
Gone(w) == wpc[w] \in {"cleanup", "exited"}

C8_State ==
    poisons_put - CountOf(query_queue, PoisonTask) <= Cardinality({w \in Workers : Gone(w)})

C8_Step ==
    /\ \A w \in Workers : Gone(w) => Gone(w)'
    /\ Len(query_queue') < Len(query_queue) =>
          \E w \in Workers :
             /\ wpc[w] = "get"
             /\ wpc'[w] = IF Head(query_queue) = PoisonTask THEN "cleanup" ELSE "exec"
             /\ \A v \in Workers \ {w} : wpc'[v] = wpc[v]

C8_AtMostOnePoison ==
    /\ []C8_State
    /\ [][C8_Step]_vars
    /\ (poisons_put = target_qps) ~> (\A w \in 1..MaxQps : w \in Workers => wpc[w] = "exited")

\* C8 witness: all poison tasks were enqueued, every worker has exited, one of them
\* on a poison task and another without one, whose poison task is left over.
C8_Witness ==
    /\ target_qps = 2 /\ poisons_put = 2
    /\ \A w \in Workers : wpc[w] = "exited"
    /\ query_queue = <<PoisonTask>>

\* C9: a run starts in CONNECTING and every step either stays in its state or
\* moves to the next one of CONNECTING, WARMUP, MEASURING, DRAINING,
\* TERMINATING_WORKERS, AGGREGATING, DONE; in DONE the pacer has no step left.
C9_PhaseSucc ==
    {<<"CONNECTING", "WARMUP">>, <<"WARMUP", "MEASURING">>, <<"MEASURING", "DRAINING">>,
     <<"DRAINING", "TERMINATING_WORKERS">>, <<"TERMINATING_WORKERS", "AGGREGATING">>,
     <<"AGGREGATING", "DONE">>}

C9_PhaseOrder ==
    /\ Phase = "CONNECTING"
    /\ [][Phase' = Phase \/ <<Phase, Phase'>> \in C9_PhaseSucc]_vars
    /\ [][pc = "done" => UNCHANGED pacerVars]_vars
    /\ [](pc = "done" => ~ENABLED PacerNext)

\* C9 witness: the run is in DONE after a warmup and a measurement phase that
\* both enqueued tasks.
C9_Witness == pc = "done" /\ warm_enqueued >= 1 /\ queries_submitted >= 1

\* C10: no measurement task is enqueued before the warmup loop has exited, and no
\* warmup task is enqueued once a measurement task has been.
Enqueued(kind) ==
    /\ Len(query_queue') = Len(query_queue) + 1
    /\ query_queue'[Len(query_queue')] = kind

C10_State ==
    /\ pc \in {"connecting"} \cup WarmupPcs =>
          /\ queries_submitted = 0
          /\ CountOf(query_queue, MeasureTask) = 0
          /\ \A w \in Workers : task[w] # MeasureTask
    /\ \A i, j \in 1..Len(query_queue) :
          (i < j /\ query_queue[i] = MeasureTask) => query_queue[j] # WarmupTask

C10_Step ==
    /\ Enqueued(MeasureTask) => pc \in TestPcs
    /\ Enqueued(WarmupTask) => pc \in WarmupPcs /\ queries_submitted = 0

C10_WarmupBeforeMeasurement ==
    /\ []C10_State
    /\ [][C10_Step]_vars

\* C10 witness: the measurement phase has enqueued a task behind a warmup task
\* that is still waiting in the queue.
C10_Witness ==
    /\ Len(query_queue) >= 2
    /\ query_queue[1] = WarmupTask
    /\ query_queue[Len(query_queue)] = MeasureTask

\* ---- properties of the aggregation ----
IsZero(x) == x[1] = 0 /\ x[2] > 0

\* C11: a run that collected no successful outcome returns min, max, avg, median,
\* p90, p95, p99 and actual_qps equal to 0 and successful equal to 0, and reports
\* as failed every outcome that was on results_queue.
C11_ZeroSuccessesZeroStats ==
    (pc = "done" /\ successful_queries = 0) =>
        /\ \A f \in {"min_time", "max_time", "avg_time", "median_time",
                      "p90", "p95", "p99", "actual_qps"} : IsZero(stats[f])
        /\ stats.successful_queries = 0
        /\ stats.failed_queries = queries_submitted

\* C11 witness: a run returned after collecting failed outcomes only, more than one.
C11_Witness ==
    /\ pc = "done" /\ successful_queries = 0
    /\ failed_queries >= 2 /\ stats.failed_queries = failed_queries

\* C14: a run that collected at least two successful latencies returns
\* min <= p90 <= p95 <= p99 <= max and min <= median <= max.
C14_PercentilesOrdered ==
    (pc = "done" /\ Len(query_times) >= 2) =>
        /\ RatLe(stats.min_time, stats.p90)
        /\ RatLe(stats.p90, stats.p95)
        /\ RatLe(stats.p95, stats.p99)
        /\ RatLe(stats.p99, stats.max_time)
        /\ RatLe(stats.min_time, stats.median_time)
        /\ RatLe(stats.median_time, stats.max_time)

\* C14 witness: a run returned with three latencies collected out of order, and
\* its percentiles lie strictly between min and max, strictly increasing.
C14_Witness ==
    /\ pc = "done" /\ Len(query_times) = 3
    /\ query_times[1] > query_times[2]
    /\ ~RatLe(stats.p90, stats.min_time)
    /\ ~RatLe(stats.p95, stats.p90)
    /\ ~RatLe(stats.p99, stats.p95)
    /\ ~RatLe(stats.max_time, stats.p99)

\* C15: for p in {90, 95, 99} and a sorted sample of n >= 1 latencies,
\* percentile returns the element at index p * (n - 1) / 100 when that is a whole
\* number, otherwise the two neighbouring elements weighted by the fractional
\* part of the index; for n = 1 it returns the single element.
C15_PercentileValue ==
    pc = "percentile_done" =>
        LET n == Len(query_times)
            percent == stats.p
            below == CHOOSE k \in 0..(n - 1) :
                         100 * k <= percent * (n - 1) /\ percent * (n - 1) < 100 * (k + 1)
            weight == percent * (n - 1) - 100 * below
        IN /\ stats.value[2] > 0
           /\ IF weight = 0
                THEN RatEq(stats.value, Rat(query_times[below + 1], 1))
                ELSE RatEq(stats.value,
                           Rat((100 - weight) * query_times[below + 1]
                               + weight * query_times[below + 2], 100))
           /\ n = 1 => RatEq(stats.value, Rat(query_times[1], 1))

\* C15 witness: a percentile was taken whose index falls between two different
\* elements of a sample of more than one latency.
C15_Witness ==
    /\ pc = "percentile_done" /\ Len(query_times) = 12 /\ stats.p = 90
    /\ query_times[10] < query_times[11]
    /\ ~RatLe(stats.value, Rat(query_times[10], 1))
    /\ ~RatLe(Rat(query_times[11], 1), stats.value)

\* C16: the returned actual_qps times run_seconds is the number of successful
\* measurement outcomes: the enqueued measurement tasks less the failed ones,
\* whatever the number of warmup tasks.
C16_ActualQpsCountsSuccesses ==
    pc = "done" =>
        /\ stats.actual_qps[2] > 0
        /\ stats.actual_qps[1] * run_seconds
             = (queries_submitted - failed_queries) * stats.actual_qps[2]

\* C16 witness: a run returned after warmup queries, a successful and a failed
\* measurement query.
C16_Witness ==
    /\ pc = "done" /\ warm_executed >= 1
    /\ successful_queries >= 1 /\ failed_queries >= 1
    /\ stats.actual_qps[1] = successful_queries

RECURSIVE SuccessTimes(_)
SuccessTimes(q) ==
    IF q = <<>> THEN <<>>
    ELSE (IF Head(q).success THEN <<Head(q).time>> ELSE <<>>) \o SuccessTimes(Tail(q))

C17_Failed(q) == Len(q) - Len(SuccessTimes(q))

\* C17: the latencies of the successful outcomes, collected or still queued,
\* stay the same through the aggregation, a failed outcome adds one to the failed
\* count and nothing else, and the returned statistics other than the failed count
\* are those of the collected successful latencies alone.
C17_Step ==
    /\ query_times' \o SuccessTimes(results_queue') = query_times \o SuccessTimes(results_queue)
    /\ successful_queries' = Len(query_times')
    /\ failed_queries' + C17_Failed(results_queue') = failed_queries + C17_Failed(results_queue)
    /\ pc' = "done" =>
         [stats' EXCEPT !.failed_queries = 0]
            = Statistics(query_times', Len(query_times'), 0, run_seconds')

C17_FailuresOutsideStatistics == [][C17_Step]_vars

\* C17 witness: a run returned after collecting two successes and two failures,
\* and its minimum is a latency of a success, not the time 0 of a failure.
C17_Witness ==
    /\ pc = "done" /\ Len(query_times) = 2 /\ failed_queries = 2
    /\ stats.min_time[1] >= 1

\* ---- properties of the suite ----

\* C12: when a level's run has returned with zero successful outcomes, the suite
\* appends an entry whose statistics are all 0 (with the failed count of the run)
\* and goes on with the loop over the remaining levels.
C12_Step ==
    (spc = "running" /\ pc = "done" /\ spc' # spc /\ stats.successful_queries = 0) =>
        /\ Len(test_results') = Len(test_results) + 1
        /\ LET entry == test_results'[Len(test_results')] IN
             /\ \A f \in {"min", "max", "avg", "median", "p90", "p95", "p99", "actual_qps"} :
                    IsZero(entry[f])
             /\ entry.successful = 0 /\ entry.failed = failed_queries
        /\ spc' = "loop"
        /\ level' = level + 1

C12_ZeroSuccessLevelNotFatal == [][C12_Step]_vars

\* C13: after a successful pre-check the list holds one entry for each level run
\* so far, in the order of qps_values and with that level's target_qps, the list
\* returned holds one for every element of qps_values, and a level's run is
\* called only when no run is in progress and no worker holds a task.
C13_State ==
    /\ spc \in {"loop", "running"} => Len(test_results) = level - 1
    /\ spc = "running" => level <= Len(qps_values) /\ target_qps = qps_values[level]
    /\ spc = "returned" => Len(test_results) = Len(qps_values)
    /\ Len(test_results) <= Len(qps_values)
    /\ \A i \in 1..Len(test_results) : test_results[i].target_qps = qps_values[i]

C13_Step ==
    (spc' = "running" /\ spc # "running") =>
        /\ pc \in {"not_called", "done"}
        /\ \A w \in Workers : wpc[w] # "exec" /\ task[w] = "none"
        /\ query_queue' = <<>> /\ results_queue' = <<>>

C13_OneEntryPerLevelInOrder ==
    /\ []C13_State
    /\ [][C13_Step]_vars

\* C13 witness: the suite returned the entries of two levels with different rates,
\* the first of which had no successful query.
C13_Witness ==
    /\ spc = "returned" /\ Len(qps_values) = 2
    /\ qps_values[1] # qps_values[2]
    /\ test_results[1].successful = 0 /\ test_results[2].successful >= 1

\* ---- properties of a run on schedule ----

\* C18: with every worker connected, every query successful and a pacer never
\* more than one interval behind, a run returns failed = 0 and a successful count
\* within 1 of run_seconds counted in intervals (target_qps * run_seconds).
C18_ReliableRunCounts ==
    pc = "done" =>
        /\ stats.failed_queries = 0
        /\ stats.successful_queries >= run_seconds - 1
        /\ stats.successful_queries <= run_seconds + 1

\* C18 witness: a run of three intervals by two workers returned two successes,
\* its pacer having lost one interval.
C18_Witness ==
    /\ pc = "done" /\ target_qps = 2 /\ run_seconds = 3
    /\ stats.successful_queries = 2 /\ stats.failed_queries = 0

\* ---- properties of the worker loop ----

\* C20: a worker that holds a connection leaves its loop only by dequeuing a
\* poison task; a dequeue timeout never takes it out of the loop.
C20_Step(w) ==
    (conn[w] # NoConn /\ wpc[w] \in {"get", "check_empty", "exec", "task_done"}
       /\ wpc'[w] \in {"cleanup", "exited"}) =>
        /\ wpc[w] = "get"
        /\ query_queue # <<>>
        /\ Head(query_queue) = PoisonTask

C20_LoopLeftOnlyOnPoison == [][\A w \in Workers : C20_Step(w)]_vars

\* ---- properties of the drain ----
RealTasksQueued == CountOf(query_queue, WarmupTask) + CountOf(query_queue, MeasureTask)

\* C21: while a warmup or measurement task is in the queue or held by a worker
\* (dequeued and not yet marked done) no poison task has been enqueued, so a
\* worker that dequeues a poison task leaves no real task behind it.
C21_State ==
    poisons_put > 0 =>
        /\ RealTasksQueued = 0
        /\ \A w \in Workers : wpc[w] \notin {"exec", "task_done"}
        /\ unfinished_tasks = poisons_put

C21_Step ==
    (query_queue # <<>> /\ Head(query_queue) = PoisonTask /\ query_queue' = Tail(query_queue))
        => RealTasksQueued = 0

C21_PoisonAfterAllTasksDone ==
    /\ []C21_State
    /\ [][C21_Step]_vars

\* C21 witness: warmup and measurement queries were executed by two workers and
\* the first poison task is in the queue.
C21_Witness ==
    /\ target_qps = 2 /\ poisons_put = 1 /\ query_queue = <<PoisonTask>>
    /\ warm_executed >= 1 /\ meas_executed >= 2

\* C22: if a worker holds a connection and is in its loop when the warmup phase
\* starts, the run eventually reaches DONE.
C22_ConnectedAtWarmup ==
    /\ pc = "warmup_check" /\ warm_enqueued = 0 /\ now = warmup_start
    /\ \E w \in Workers : conn[w] = w /\ wpc[w] \in {"get", "check_empty"}

C22_ConnectedRunCompletes == C22_ConnectedAtWarmup ~> (pc = "done")

\* C23: every warmup or measurement task enqueued is in the queue, held by one
\* worker that has not yet called execute_query for it, or was executed once;
\* only the pacer adds to the queue.
C23_State ==
    /\ warm_enqueued = CountOf(query_queue, WarmupTask) + Holding(WarmupTask, "exec")
                         + warm_executed
    /\ queries_submitted = CountOf(query_queue, MeasureTask) + Holding(MeasureTask, "exec")
                             + meas_executed
    /\ unfinished_tasks = RealTasksQueued + poisons_put
                            + Cardinality({w \in Workers : wpc[w] \in {"exec", "task_done"}})

C23_Step ==
    /\ Len(query_queue') > Len(query_queue) =>
          pc \in {"warmup_body", "test_body", "poisoning"} /\ UNCHANGED workerVars
    /\ \A w \in Workers :
          (wpc[w] = "exec" /\ wpc'[w] # "exec") => wpc'[w] = "task_done"
    /\ \A w \in Workers :
          (wpc[w] = "task_done" /\ wpc'[w] # "task_done") =>
              wpc'[w] = "get" /\ task'[w] = "none"

C23_TaskExecutedOnce ==
    /\ []C23_State
    /\ [][C23_Step]_vars

\* C23 witness: two workers have each executed one of the two measurement tasks,
\* one query failed, and no task is left.
C23_Witness ==
    /\ target_qps = 2 /\ queries_submitted = 2 /\ meas_executed = 2
    /\ query_queue = <<>>
    /\ Len(results_queue) = 2 /\ ~results_queue[1].success /\ results_queue[2].success
    /\ \A w \in Workers : wpc[w] = "task_done"

\* C24: from the moment the aggregator starts to drain results_queue no worker
\* holds a task, every measurement task has its outcome in the queue or
\* collected, and the queue only shrinks.
C24_State ==
    pc \in {"aggregating", "done"} =>
        /\ \A w \in Workers : wpc[w] \notin {"exec", "task_done"}
        /\ meas_executed = queries_submitted
        /\ Len(results_queue) + Len(query_times) + failed_queries = meas_executed

C24_Step ==
    pc \in {"aggregating", "done"} =>
        results_queue' = results_queue \/ results_queue' = Tail(results_queue)

C24_NoOutcomeMissed ==
    /\ []C24_State
    /\ [][C24_Step]_vars

\* C24 witness: the aggregator starts with both outcomes in the queue while a
\* worker whose join timed out is still in its loop.
C24_Witness ==
    /\ pc = "aggregating" /\ Len(results_queue) = 2
    /\ successful_queries = 0 /\ failed_queries = 0
    /\ \E w \in Workers : wpc[w] \in {"get", "check_empty"}

\* ---- properties of the pacing ----

\* C25: within a phase next_query_time is the phase start plus one interval
\* for each task enqueued, however late the enqueues were, and a pacer that
\* finds a task overdue enqueues it in that loop iteration.
C25_State ==
    /\ pc \in WarmupPcs => next_query_time = warmup_start + warm_enqueued * interval
    /\ pc \in {"test_check", "test_body"} =>
          next_query_time = test_start + queries_submitted * interval

C25_Step ==
    /\ (pc = "warmup_body" /\ pc' # pc /\ now >= next_query_time) =>
          /\ warm_enqueued' = warm_enqueued + 1
          /\ query_queue' = Append(query_queue, WarmupTask)
          /\ now' = now
    /\ (pc = "test_body" /\ pc' # pc /\ now >= next_query_time) =>
          /\ queries_submitted' = queries_submitted + 1
          /\ query_queue' = Append(query_queue, MeasureTask)
          /\ now' = now

C25_NoDrift ==
    /\ []C25_State
    /\ [][C25_Step]_vars

\* C25 witness: after a stall of two intervals the pacer has enqueued two tasks
\* in a row, the third is overdue, and its schedule still counts from the
\* phase start.
C25_Witness ==
    /\ pc = "test_body" /\ now = test_start + 2
    /\ queries_submitted = 2 /\ next_query_time = now
    /\ query_queue = <<MeasureTask, MeasureTask>>
    /\ \A w \in Workers : wpc[w] = "get"

\* C26: the task number k of a phase (k = 0, 1, ...) is enqueued when the clock
\* reads at least phase start + k intervals, and the measurement phase enqueues
\* at most run_seconds / interval + 1 tasks (target_qps * run_seconds + 1).
C26_State ==
    /\ queries_submitted <= run_seconds + 1
    /\ warm_enqueued <= warmup_seconds + 1

C26_Step ==
    /\ queries_submitted' = queries_submitted + 1 =>
          now >= test_start + queries_submitted * interval
    /\ warm_enqueued' = warm_enqueued + 1 =>
          now >= warmup_start + warm_enqueued * interval

C26_NeverEarly ==
    /\ []C26_State
    /\ [][C26_Step]_vars

\* C26 witness: a measurement phase of three intervals stalled for two of them,
\* caught up, and has enqueued its fourth task, at the end of the phase.
C26_Witness ==
    /\ run_seconds = 3 /\ queries_submitted = 4 /\ now = test_end
    /\ query_queue = <<MeasureTask, MeasureTask, MeasureTask, MeasureTask>>

\* ---- properties of the queue order ----

\* C27: the queue is served in the order of the puts: a put adds at the tail, a
\* get takes the head, so no warmup task is behind a measurement task and a
\* measurement task is dequeued only when no warmup task is left in the queue.
C27_State ==
    \A i, j \in 1..Len(query_queue) :
        i < j => /\ ~(query_queue[i] = MeasureTask /\ query_queue[j] = WarmupTask)
                 /\ ~(query_queue[i] = PoisonTask /\ query_queue[j] # PoisonTask)

C27_Step ==
    /\ Len(query_queue') > Len(query_queue) =>
          SubSeq(query_queue', 1, Len(query_queue)) = query_queue
    /\ Len(query_queue') < Len(query_queue) =>
          /\ query_queue' = Tail(query_queue)
          /\ Head(query_queue) # PoisonTask =>
                \E w \in Workers : wpc[w] = "get" /\ task'[w] = Head(query_queue)
          /\ Head(query_queue) = MeasureTask => CountOf(query_queue, WarmupTask) = 0

C27_FifoOrder ==
    /\ []C27_State
    /\ [][C27_Step]_vars

\* C27 witness: a worker holds the warmup task that was left when the measurement
\* phase started, dequeued ahead of the measurement task now at the head.
C27_Witness ==
    /\ queries_submitted = 1 /\ query_queue = <<MeasureTask>>
    /\ warm_executed = 0
    /\ \E w \in Workers : wpc[w] = "exec" /\ task[w] = WarmupTask

\* ---- properties of the timeout handler ----

\* C28 as claimed: a worker whose dequeue timed out and that finds the queue empty
\* while the run is draining leaves its loop.
C28_TimeoutWhileDrainingExits ==
    [][\A w \in Workers :
         (pc = "draining" /\ wpc[w] = "check_empty" /\ query_queue = <<>>
            /\ wpc'[w] # wpc[w]) => wpc'[w] = "cleanup"]_vars

\* C28 amended: a worker whose dequeue timed out and that finds the queue empty
\* goes back to the dequeue, in every phase of the run, draining included; it
\* leaves its loop after a timeout only when it finds the queue non-empty.
C28_TimeoutOnEmptyContinues ==
    [][\A w \in Workers :
         (wpc[w] = "check_empty" /\ wpc'[w] # wpc[w]) =>
             wpc'[w] = IF query_queue = <<>> THEN "get" ELSE "cleanup"]_vars

\* C28 witness: the run is draining, the queue is empty while another worker
\* still executes the last task, and a worker's dequeue has timed out.
C28_Witness ==
    /\ pc = "draining" /\ query_queue = <<>> /\ unfinished_tasks = 1
    /\ \E w \in Workers : wpc[w] = "check_empty" /\ conn[w] = w
    /\ \E w \in Workers : wpc[w] = "exec"

\* ---- properties of the connections ----
InLoop(w) == wpc[w] \in {"get", "check_empty", "exec", "task_done"}

\* C29: a worker calls create_connection once, before its loop; the handle it
\* holds in the loop is its own or none, differs from every other worker's, and
\* stays the same through the loop, also after a query has raised.
C29_State ==
    \A w \in Workers :
        /\ wpc[w] = "start" => conn[w] = NoConn
        /\ InLoop(w) => conn[w] \in {NoConn, w}
        /\ \A v \in Workers \ {w} : conn[w] \notin {NoConn, Closed} => conn[v] # conn[w]

C29_Step ==
    \A w \in Workers :
        /\ wpc'[w] = "start" => wpc[w] = "start"
        /\ InLoop(w) => conn'[w] = conn[w]
        /\ (conn'[w] # conn[w] /\ wpc[w] # "cleanup") => wpc[w] = "start" /\ conn'[w] = w

C29_OneConnectionPerWorker ==
    /\ []C29_State
    /\ [][C29_Step]_vars

\* C29 witness: two workers hold their own handles, a query of one of them has
\* raised, and both are back at the dequeue with the same handles.
C29_Witness ==
    /\ target_qps = 2 /\ conn[1] = 1 /\ conn[2] = 2
    /\ Len(results_queue) = 2 /\ ~results_queue[1].success
    /\ \A w \in Workers : wpc[w] = "get"

\* C30: a worker that holds a handle and leaves its loop runs the finally block,
\* which closes the handle; the handle is closed exactly when the worker has
\* exited, and a worker with a closed handle takes no further step.
C30_State ==
    \A w \in Workers :
        /\ wpc[w] = "exited" => conn[w] \in {NoConn, Closed}
        /\ conn[w] = Closed => wpc[w] = "exited"

C30_Step ==
    \A w \in Workers :
        /\ (conn[w] = w /\ InLoop(w) /\ ~InLoop(w)') => wpc'[w] = "cleanup"
        /\ (conn[w] = w /\ wpc[w] = "cleanup" /\ wpc'[w] # "cleanup") =>
              wpc'[w] = "exited" /\ conn'[w] = Closed
        /\ conn[w] = Closed => conn'[w] = Closed /\ wpc'[w] = "exited" /\ task'[w] = task[w]

C34_MedianIsFiftiethPercentile ==
    pc = "median_done" =>
        /\ stats.value[2] > 0
        /\ percentile(query_times, 50)[2] > 0
        /\ RatEq(stats.value, percentile(query_times, 50))

\* C34 witness: the median of an even sample whose two middle elements differ
\* was taken, and lies strictly between them.
C34_Witness ==
    /\ pc = "median_done" /\ Len(query_times) = 12
    /\ query_times[6] < query_times[7]
    /\ ~RatLe(stats.value, Rat(query_times[6], 1))
    /\ ~RatLe(Rat(query_times[7], 1), stats.value)

\* C36: percentile never reads outside the sample: for n >= 1 and p in
\* {90, 95, 99} no read raises IndexError; when the index p * (n - 1) / 100 is
\* not a whole number its floor plus one is at most n - 1, and when it is a
\* whole number it lies in 0..n - 1.
C36_ReadsInsideSample ==
    pc = "percentile_done" =>
        LET n == Len(query_times)
            hundredths == stats.p * (n - 1)
            floor == hundredths \div 100
        IN /\ n >= 1 /\ stats.p \in Percentiles
           /\ stats.value # IndexError
           /\ IF hundredths % 100 = 0
                THEN 0 <= floor /\ floor <= n - 1
                ELSE 0 <= floor /\ floor + 1 <= n - 1

\* C36 witness: an interpolating percentile was taken whose upper read is the
\* last element of the sample.
C36_Witness ==
    /\ pc = "percentile_done" /\ Len(query_times) = 8 /\ stats.p = 99
    /\ (stats.p * 7) % 100 # 0 /\ (stats.p * 7) \div 100 + 1 = 7
    /\ query_times[7] < query_times[8]
    /\ ~RatLe(Rat(query_times[8], 1), stats.value)


C31_TeardownSwallowed ==
    \A w \in Workers :
        /\ wpc[w] # "died"
        /\ wpc[w] = "exited" =>
              /\ (conn[w] # NoConn /\ "close" \in handle.has) => conn[w] = Closed
              /\ conn[w] = Disconnected =>
                    "close" \notin handle.has /\ "disconnect" \in handle.has

\* C32: when the pre-check returns false, run_load_test_suite returns None with
\* run_qps_load_test never called: no worker was started, no task enqueued, no
\* level run and no entry recorded, and nothing happens afterwards.
C32_State ==
    spc = "returned_none" =>
        /\ pc = "not_called" /\ level = 1 /\ test_results = <<>>
        /\ query_queue = <<>> /\ unfinished_tasks = 0 /\ results_queue = <<>>
        /\ warm_enqueued = 0 /\ queries_submitted = 0 /\ poisons_put = 0
        /\ warm_executed = 0 /\ meas_executed = 0
        /\ \A w \in DOMAIN wpc : wpc[w] = "exited" /\ conn[w] = NoConn /\ task[w] = "none"

C32_Step == spc # "returned_none" /\ (spc' = "returned_none" => spc = "precheck")

C32_FailedPrecheckRunsNothing ==
    /\ []C32_State
    /\ [][C32_Step]_vars

\* C32 witness: the suite returned None for two levels it was asked to run.
C32_Witness ==
    /\ spc = "returned_none" /\ Len(qps_values) = 2 /\ pc = "not_called"

\* C35: each level runs on its own queues and workers: the tasks and the poison
\* on query_queue, the outcomes on results_queue and the outcomes counted are
\* those of the current level, a level returns the counts of its own submitted
\* tasks, and the queue of the level before, with the poison left on it, changes
\* only by being replaced at the next call, which starts with empty queues and
\* fresh workers.
C35_State ==
    /\ CountOf(query_queue, PoisonTask) <= poisons_put
    /\ Len(query_queue) <= warm_enqueued + queries_submitted + poisons_put
    /\ Len(results_queue) + successful_queries + failed_queries <= queries_submitted
    /\ (spc = "running" /\ pc = "done") =>
           stats.successful_queries + stats.failed_queries = queries_submitted

C35_Step ==
    /\ stale_queue' # stale_queue => spc = "loop" /\ spc' = "running"
    /\ (spc = "loop" /\ spc' = "running") =>
           /\ stale_queue' = query_queue
           /\ query_queue' = <<>> /\ unfinished_tasks' = 0 /\ results_queue' = <<>>
           /\ \A w \in DOMAIN wpc' : wpc'[w] = "start" /\ conn'[w] = NoConn

C35_LevelsShareNothing ==
    /\ []C35_State
    /\ [][C35_Step]_vars

\* C35 witness: the second level returned its statistics, one of its workers
\* having taken a poison task of its own, while the queue of the first level
\* still holds the poison a worker of that level left.
C35_Witness ==
    /\ spc = "running" /\ level = 2 /\ pc = "done"
    /\ CountOf(stale_queue, PoisonTask) >= 1
    /\ stats.successful_queries >= 1
    /\ \E w \in Workers : wpc[w] = "exited" /\ conn[w] = Closed

=============================================================================
